---- MODULE Spec2Model ----
(***************************************************************************)
(* A model of mGear Flex (python/flex): the name based shape matching of   *)
(* flex.query, the Flex object of flex.flex and the shape gathering of     *)
(* flex.query over a Maya scene.                                           *)
(*                                                                         *)
(* A name is a sequence of one-character strings, so that str.split is     *)
(* computed and not assumed.  A python dict is a function whose domain is  *)
(* the set of its keys.  An exception is a record [type, msg]; NoExc is    *)
(* the normal return.                                                      *)
(***************************************************************************)
EXTENDS Integers, Sequences, FiniteSets, TLC

VARIABLES
    \* flex.query dict helpers
    elements,        \* the list given to get_prefix_less_dict
    prefix_dict,     \* [done, value]: what get_prefix_less_dict returned
    source_shapes,   \* first dict given to get_matching/get_missing_shapes
    target_shapes,   \* second dict
    matching,        \* [done, value]: what get_matching_shapes returned
    missing,         \* [done, value]: what get_missing_shapes returned
    \* the Maya scene and flex.query.get_shapes_from_group
    scene,           \* the dag nodes, in creation order
    shapes_call,     \* [done, group, exc, value]: the last get_shapes_from_group
    \* the Flex object of flex.flex
    source_group,    \* Flex.__source_group
    target_group,    \* Flex.__target_group
    source_text,     \* text of ui.source_text
    target_text,     \* text of ui.target_text
    ui_visible,      \* ui.isVisible()
    rig_call,        \* the last Flex.update_rig call and how it ended
    \* flex.update: attributes of a source and a target node
    src_attrs,       \* user defined attributes of the source node
    tgt_attrs,       \* attributes of the target node
    ua,              \* the running update_user_attributes call
    attr_call,       \* the last update_attribute call made on its own
    \* flex.update: shapes in the dependency graph
    dg,              \* the graph: [nodes, conns]
    pre_dg,          \* the graph before the operation
    none_for_empty,  \* whether getAttr(multiIndices) gives None for no index
    graph_call       \* the operation run on the graph and how it ended

dict_vars == <<elements, prefix_dict, source_shapes, target_shapes,
               matching, missing>>

scene_vars == <<scene, shapes_call>>

flex_vars == <<source_group, target_group, source_text, target_text,
               ui_visible, rig_call>>

attr_vars == <<src_attrs, tgt_attrs, ua, attr_call>>

graph_vars == <<dg, pre_dg, none_for_empty, graph_call>>

update_vars == <<attr_vars, graph_vars>>

vars == <<dict_vars, scene_vars, flex_vars, update_vars>>

----------------------------------------------------------------------------
(* Bounds *)

MaxNameLen == 2
MaxElems == 2
MaxShapes == 2
MaxNodes == 4
MaxUvIndex == 1

\* the name the i-th created node gets
NodeNames == <<"geo", "body", "bodyShape", "joint1", "bodyShapeOrig", "extra">>

Alphabet == {"a", "|", ":"}

\* every string over Alphabet of at most MaxNameLen characters
Names == UNION {[1..n -> Alphabet] : n \in 0..MaxNameLen}

\* shape names as Maya gives them: plain, in a namespace, as a dag path
ShapeNames == { <<"a">>, <<"n", ":", "a">>, <<"g", "|", "a">>,
                <<"b">>, <<"g", "|", "n", ":", "b">>, <<"c">> }

Lists(S, n) == UNION {[1..k -> S] : k \in 0..n}

----------------------------------------------------------------------------
(* python primitives *)

EmptyDict == [k \in {} |-> {}]

Last(s) == s[Len(s)]

\* str.split(sep) for a one character separator
RECURSIVE split(_, _)
split(s, sep) ==
    IF \A i \in 1..Len(s) : s[i] # sep
    THEN <<s>>
    ELSE LET i == CHOOSE k \in 1..Len(s) :
                      s[k] = sep /\ \A j \in 1..(k - 1) : s[j] # sep
         IN  <<SubSeq(s, 1, i - 1)>> \o split(SubSeq(s, i + 1, Len(s)), sep)

\* dict(pairs): a later pair replaces an earlier one with the same key
RECURSIVE dict(_)
dict(pairs) ==
    IF pairs = <<>>
    THEN EmptyDict
    ELSE LET d == dict(SubSeq(pairs, 1, Len(pairs) - 1))
             p == pairs[Len(pairs)]
         IN  [k \in DOMAIN d \cup {p[1]} |-> IF k = p[1] THEN p[2] ELSE d[k]]

\* the orders in which "for s in d" may visit the keys of a dict
KeyOrders(d) ==
    {o \in [1..Cardinality(DOMAIN d) -> DOMAIN d] :
        \A i, j \in DOMAIN o : i # j => o[i] # o[j]}

Values(d) == {d[k] : k \in DOMAIN d}

NoExc == [type |-> "none", msg |-> ""]
Raise(type, msg) == [type |-> type, msg |-> msg]

----------------------------------------------------------------------------
(* The Maya scene: a node is [name, type, parent, intermediate]; parent is *)
(* the index of its parent transform, 0 under the world.                   *)

ShapeTypes == {"mesh", "nurbsCurve", "nurbsSurface"}
NodeTypes == {"transform", "joint"} \cup ShapeTypes

NodeIndex(sc, name) == CHOOSE i \in DOMAIN sc : sc[i].name = name

\* cmds.objExists
objExists(sc, name) == \E i \in DOMAIN sc : sc[i].name = name

\* cmds.objectType
objectType(sc, name) == sc[NodeIndex(sc, name)].type

\* node i and the nodes below it, depth first, children in creation order
RECURSIVE Dag(_, _), DagChildren(_, _, _)
Dag(sc, i) == <<i>> \o DagChildren(sc, i, i + 1)
DagChildren(sc, i, k) ==
    IF k > Len(sc)
    THEN <<>>
    ELSE (IF sc[k].parent = i THEN Dag(sc, k) ELSE <<>>)
         \o DagChildren(sc, i, k + 1)

\* cmds.ls(name, dagObjects=True, noIntermediate=..., exactType=type)
ls(sc, name, noIntermediate, exactType) ==
    LET Keep(i) == /\ sc[i].type = exactType
                   /\ (noIntermediate => ~sc[i].intermediate)
        kept == SelectSeq(Dag(sc, NodeIndex(sc, name)), Keep)
    IN  [k \in 1..Len(kept) |-> sc[kept[k]].name]

----------------------------------------------------------------------------
(* flex.query *)

\* a slip: the first namespace segment instead of the last
prefix_less_key_first(n) == split(Last(split(n, "|")), ":")[1]

\* n.split("|")[-1].split(":")[-1]
prefix_less_key(n) == Last(split(Last(split(n, "|")), ":"))

get_prefix_less_dict(elems) ==
    dict([i \in 1..Len(elems) |-> <<prefix_less_key(elems[i]), elems[i]>>])

\* a slip: the value is the prefix-less name, as in get_missing_shapes
get_matching_shapes_key(src, tgt, order) ==
    LET Keep(s) == s \in DOMAIN tgt
        kept == SelectSeq(order, Keep)
    IN  dict([i \in 1..Len(kept) |-> <<src[kept[i]], kept[i]>>])

get_matching_shapes(src, tgt, order) ==
    LET Keep(s) == s \in DOMAIN tgt
        kept == SelectSeq(order, Keep)
    IN  dict([i \in 1..Len(kept) |-> <<src[kept[i]], tgt[kept[i]]>>])

\* a slip: the filter of get_matching_shapes
get_missing_shapes_in(src, tgt, order) ==
    LET Keep(s) == s \in DOMAIN tgt
        kept == SelectSeq(order, Keep)
    IN  dict([i \in 1..Len(kept) |-> <<src[kept[i]], kept[i]>>])

get_missing_shapes(src, tgt, order) ==
    LET Keep(s) == s \notin DOMAIN tgt
        kept == SelectSeq(order, Keep)
    IN  dict([i \in 1..Len(kept) |-> <<src[kept[i]], kept[i]>>])

\* a slip: the intermediate shapes are listed too
get_shapes_from_group_all(sc, group) ==
    IF ~objExists(sc, group)
    THEN [exc |-> Raise("RuntimeError", "Given element does not exists."),
          value |-> <<>>]
    ELSE LET shapes == ls(sc, group, FALSE, "mesh")
                       \o ls(sc, group, FALSE, "nurbsCurve")
                       \o ls(sc, group, FALSE, "nurbsSurface")
         IN  IF shapes = <<>>
             THEN [exc |-> Raise("ValueError",
                                 "No shape(s) found under the given group"),
                   value |-> <<>>]
             ELSE [exc |-> NoExc, value |-> shapes]

\* a slip: the empty list is returned
get_shapes_from_group_empty(sc, group) ==
    IF ~objExists(sc, group)
    THEN [exc |-> Raise("RuntimeError", "Given element does not exists."),
          value |-> <<>>]
    ELSE [exc |-> NoExc,
          value |-> ls(sc, group, TRUE, "mesh")
                    \o ls(sc, group, TRUE, "nurbsCurve")
                    \o ls(sc, group, TRUE, "nurbsSurface")]

get_shapes_from_group(sc, group) ==
    IF ~objExists(sc, group)
    THEN [exc |-> Raise("RuntimeError", "Given element does not exists."),
          value |-> <<>>]
    ELSE LET shapes == ls(sc, group, TRUE, "mesh")
                       \o ls(sc, group, TRUE, "nurbsCurve")
                       \o ls(sc, group, TRUE, "nurbsSurface")
         IN  IF shapes = <<>>
             THEN [exc |-> Raise("ValueError",
                                 "No shape(s) found under the given group"),
                   value |-> <<>>]
             ELSE [exc |-> NoExc, value |-> shapes]

----------------------------------------------------------------------------
(* flex.flex: the Flex object *)

PyNone == "<None>"

\* python truth of a str or None
Truthy(v) == v # PyNone /\ v # ""

\* QLineEdit.setText: None shows as the empty text
Text(v) == IF v = PyNone THEN "" ELSE v

\* the scene the Flex object runs in: the rig group, the new geometry group
\* in its namespace, a skinned mesh with its orig shape, and a joint
FlexScene ==
    << [name |-> "geo", type |-> "transform", parent |-> 0,
        intermediate |-> FALSE],
       [name |-> "body", type |-> "transform", parent |-> 1,
        intermediate |-> FALSE],
       [name |-> "bodyShape", type |-> "mesh", parent |-> 2,
        intermediate |-> FALSE],
       [name |-> "joint1", type |-> "joint", parent |-> 0,
        intermediate |-> FALSE],
       [name |-> "bodyShapeOrig", type |-> "mesh", parent |-> 2,
        intermediate |-> TRUE],
       [name |-> "new:geo", type |-> "transform", parent |-> 0,
        intermediate |-> FALSE],
       [name |-> "new:body", type |-> "transform", parent |-> 6,
        intermediate |-> FALSE],
       [name |-> "new:bodyShape", type |-> "mesh", parent |-> 7,
        intermediate |-> FALSE] >>

\* what a caller may assign to a group property, and what a user may type
GroupValues == {PyNone, "", "geo", "new:geo", "bodyShape", "joint1", "ghost"}
Texts == GroupValues \ {PyNone}

\* query.is_valid_group
is_valid_group(sc, group) ==
    IF ~objExists(sc, group)
    THEN FALSE
    ELSE IF objectType(sc, group) # "transform"
    THEN FALSE
    ELSE TRUE

\* query.get_transform_selection: the first transform (or node of a type
\* derived from it) at or below the selected nodes, None without one
get_transform_selection(sc, selected) ==
    LET Keep(i) == sc[i].type \in {"transform", "joint"}
        selection == IF selected = 0 THEN <<>>
                     ELSE SelectSeq(Dag(sc, selected), Keep)
    IN  IF Len(selection) >= 1 THEN sc[selection[1]].name ELSE PyNone

\* the check boxes of FlexDialog as constructed
UiChecks ==
    [deformed_check |-> TRUE,
     transformed_check |-> TRUE,
     user_attributes_check |-> TRUE,
     display_attributes_check |-> FALSE,
     component_attributes_check |-> FALSE,
     render_attributes_check |-> TRUE,
     plugin_attributes_check |-> FALSE]

\* Flex.__gather_ui_options
gather_ui_options(checks) ==
    [deformed |-> checks.deformed_check,
     transformed |-> checks.transformed_check,
     user_attributes |-> checks.user_attributes_check,
     object_display |-> checks.display_attributes_check,
     component_display |-> checks.component_attributes_check,
     render_attributes |-> checks.render_attributes_check,
     plugin_attributes |-> checks.plugin_attributes_check]

\* run_options as a caller gives it: None, or a dict
NoOptions == [given |-> FALSE, value |-> EmptyDict]
Options(d) == [given |-> TRUE, value |-> d]
OptionsTruthy(o) == o.given /\ DOMAIN o.value # {}

FullOptions ==
    [deformed |-> TRUE, transformed |-> TRUE, user_attributes |-> TRUE,
     object_display |-> TRUE, component_display |-> TRUE,
     render_attributes |-> TRUE, plugin_attributes |-> TRUE,
     mismatched_topologies |-> TRUE, hold_transform_values |-> TRUE]

RunOptions == {NoOptions, Options(EmptyDict), Options(FullOptions)}

\* the parameters of update.update_rig(source, target, options)
update_rig_parameters == {"source", "target", "options"}

\* calling update.update_rig with keyword arguments: python binds them to the
\* parameters before the body runs and raises TypeError for an unknown one
update_rig(keywords) ==
    IF keywords \subseteq update_rig_parameters
    THEN [exc |-> NoExc, ran |-> TRUE]
    ELSE [exc |-> Raise("TypeError",
                        "update_rig() got an unexpected keyword argument"),
          ran |-> FALSE]

\* a slip: the two groups are not compared
property_check_valid_only(sc, source, target, value) ==
    IF Truthy(value) /\ ~is_valid_group(sc, value)
    THEN Raise("ValueError", "The given group is not a valid Maya transform node")
    ELSE NoExc

\* Flex.__property_check
property_check(sc, source, target, value) ==
    IF Truthy(value) /\ ~is_valid_group(sc, value)
    THEN Raise("ValueError", "The given group is not a valid Maya transform node")
    ELSE IF source = target /\ ~Truthy(value)
    THEN Raise("ValueError",
               "The given source and target objects are the same. Nothing to update!")
    ELSE NoExc

\* how a Flex.update_rig call ends: the exception, whether the call of
\* update.update_rig was reached, whether its body ran, and whether
\* finished_running showed its message
Ended(exc, called, ran) ==
    [exc |-> exc, called_update |-> called, update_ran |-> ran,
     message_shown |-> exc = NoExc]

\* a slip: the groups are not tested for being set
Flex_update_rig_unset(sc, source, target, analytic, run_options) ==
    LET check == property_check(sc, source, target, PyNone)
    IN  IF check # NoExc
        THEN Ended(check, FALSE, FALSE)
        ELSE LET r == update_rig({"source", "target", "options", "analytic"})
             IN  Ended(r.exc, TRUE, r.ran)

\* Flex.update_rig under its finished_running decorator
Flex_update_rig(sc, source, target, analytic, run_options) ==
    IF ~Truthy(source) \/ ~Truthy(target)
    THEN Ended(Raise("ValueError",
                     "You need to provided a source and target group"),
               FALSE, FALSE)
    ELSE LET check == property_check(sc, source, target, PyNone)
         IN  IF check # NoExc
             THEN Ended(check, FALSE, FALSE)
             ELSE LET options == IF ~OptionsTruthy(run_options)
                                 THEN gather_ui_options(UiChecks)
                                 ELSE run_options.value
                      r == update_rig({"source", "target", "options",
                                       "analytic"})
                  IN  Ended(r.exc, TRUE, r.ran)

\* the dicts the callers hand over: prefix-less name -> full shape name
PrefixLessDicts == {get_prefix_less_dict(l) : l \in Lists(ShapeNames, MaxShapes)}

----------------------------------------------------------------------------
(* flex.update: attributes.  A source attribute is [value, addable]:       *)
(* addable tells whether Maya accepts its addAttr command on the target.   *)
(* A target attribute is [value, locked, unlockable, settable]: unlockable *)
(* tells whether Maya lets its lock state be set (it does not on a         *)
(* referenced node), settable whether Maya lets its value be set.          *)

\* cmds.listAttr lists the attributes in this order
AttrNames == <<"attrA", "attrB">>
AttrNameSet == {AttrNames[i] : i \in DOMAIN AttrNames}
AttrValues == {0, 1}

\* the value an attribute has when addAttr has just made it
AddedAttr == [value |-> 0, locked |-> FALSE, unlockable |-> TRUE,
              settable |-> TRUE]

SourceAttrs == [value : AttrValues, addable : BOOLEAN]
TargetAttrs == [value : AttrValues, locked : BOOLEAN, unlockable : BOOLEAN,
                settable : BOOLEAN]

AttrDicts(S) == UNION {[D -> S] : D \in SUBSET AttrNameSet}

\* cmds.listAttr(source, userDefined=True): None (here the empty list, both
\* are false in python) without a user defined attribute
listAttr_userDefined(src) ==
    LET Keep(name) == name \in DOMAIN src
    IN  SelectSeq(AttrNames, Keep)

\* query.is_lock_attribute
is_lock_attribute(tgt, name) == tgt[name].locked

\* query.lock_unlock_attribute: [ok, tgt]
lock_unlock_attribute(tgt, name, state) ==
    IF tgt[name].unlockable
    THEN [ok |-> TRUE, tgt |-> [tgt EXCEPT ![name].locked = state]]
    ELSE [ok |-> FALSE, tgt |-> tgt]

\* update.add_attribute: [tgt, exc]
add_attribute(src, tgt, name) ==
    IF name \in DOMAIN tgt
    THEN [tgt |-> tgt, exc |-> NoExc]
    ELSE IF ~src[name].addable
    THEN [tgt |-> tgt, exc |-> Raise("RuntimeError", "addAttr failed")]
    ELSE [tgt |-> [n \in DOMAIN tgt \cup {name} |->
                      IF n = name THEN AddedAttr ELSE tgt[n]],
          exc |-> NoExc]

\* what update_attribute gives back: the target, the returned value (NoExc
\* stands for None, an exception record for the exception object returned)
\* and the exception raised
AttrResult(tgt, ret, exc) == [tgt |-> tgt, ret |-> ret, exc |-> exc]

\* a slip: the result of lock_unlock_attribute is not looked at
update_attribute_unchecked(src, tgt, name) ==
    IF name \notin DOMAIN tgt
    THEN AttrResult(tgt, NoExc, NoExc)
    ELSE LET lock == is_lock_attribute(tgt, name)
             unlocked == lock_unlock_attribute(tgt, name, FALSE)
         IN  IF name \notin DOMAIN src
             THEN AttrResult(unlocked.tgt,
                             Raise("MayaAttributeError", "no such attribute"),
                             NoExc)
             ELSE AttrResult([unlocked.tgt EXCEPT ![name].value = src[name].value],
                             NoExc, NoExc)

\* update.update_attribute
update_attribute(src, tgt, name) ==
    IF name \notin DOMAIN tgt
    THEN AttrResult(tgt, NoExc, NoExc)
    ELSE LET lock == is_lock_attribute(tgt, name)
             unlocked == lock_unlock_attribute(tgt, name, FALSE)
         IN  IF ~unlocked.ok
             THEN AttrResult(tgt, NoExc, NoExc)
             ELSE IF name \notin DOMAIN src
             THEN \* py_source.attr(attribute_name) raises inside the try
                  AttrResult(unlocked.tgt,
                             Raise("MayaAttributeError", "no such attribute"),
                             NoExc)
             ELSE IF ~tgt[name].settable
             THEN \* py_target.attr(attribute_name).set raises inside the try
                  AttrResult(unlocked.tgt,
                             Raise("RuntimeError", "setAttr failed"), NoExc)
             ELSE LET set == [unlocked.tgt EXCEPT
                                 ![name].value = src[name].value]
                  IN  IF lock
                      THEN AttrResult(lock_unlock_attribute(set, name, TRUE).tgt,
                                      NoExc, NoExc)
                      ELSE AttrResult(set, NoExc, NoExc)

\* update_user_attributes: where the call goes after add_attribute returned
\* for the i-th of n attributes
\* a slip: one loop that adds and sets each attribute in turn
after_add_same(i, n) == [pc |-> "update", i |-> i]

after_add(i, n) ==
    IF i < n THEN [pc |-> "add", i |-> i + 1] ELSE [pc |-> "update", i |-> 1]

\* update_user_attributes: where the call goes after update_attribute
\* returned for the i-th of n attributes
after_update(i, n) ==
    IF i < n THEN [pc |-> "update", i |-> i + 1] ELSE [pc |-> "done", i |-> i]

----------------------------------------------------------------------------
(* flex.update: the dependency graph.  The graph is [nodes, conns]: nodes  *)
(* maps a node name to [type, parents, intermediate, geom, uv, xform, uid, *)
(* weights], conns is a set of [src, dst] with plugs <<node, attribute>>.  *)
(* geom is the geometry a shape holds, [count, bbox]; uv maps the indices  *)
(* of a mesh's uvSet to their lock state; uid tells a node from a later    *)
(* node of the same name; weights is the vertex count the weights of a     *)
(* skin cluster are laid out for.  A run of flex.update code threads a     *)
(* record g = [nodes, conns, written, log, exc]: written collects the      *)
(* destination plugs given to connectAttr, log the update functions        *)
(* entered, and once exc is set the remaining steps are skipped.           *)

DeformerTypes == {"skinCluster", "blendShape", "cluster", "wrap"}

NoGeom == [count |-> 0, bbox |-> ""]
NoUv == [i \in {} |-> FALSE]

Node(type, parents, intermediate, geom, uv, xform, uid) ==
    [type |-> type, parents |-> parents, intermediate |-> intermediate,
     geom |-> geom, uv |-> uv, xform |-> xform, uid |-> uid, weights |-> 0]

\* query.get_shape_type_attributes
get_shape_type_attributes(type) ==
    IF type = "nurbsSurface" \/ type = "nurbsCurve"
    THEN [points |-> "controlPoints", input |-> "create", output |-> "local"]
    ELSE [points |-> "pnts", input |-> "inMesh", output |-> "outMesh"]

\* the geometry plugs a node of the type has
PlugsOf(type) ==
    CASE type = "mesh" -> {"inMesh", "outMesh"}
      [] type \in {"nurbsCurve", "nurbsSurface"} -> {"create", "local"}
      [] type \in DeformerTypes -> {"input", "outputGeometry"}
      [] type = "polySphere" -> {"output"}
      [] type = "makeNurbCircle" -> {"outputCurve"}
      [] OTHER -> {}

\* the plug through which geometry enters a node
InputOf(type) ==
    CASE type = "mesh" -> "inMesh"
      [] type \in {"nurbsCurve", "nurbsSurface"} -> "create"
      [] OTHER -> "input"

PlugExists(g, plug) ==
    plug[1] \in DOMAIN g.nodes /\ plug[2] \in PlugsOf(g.nodes[plug[1]].type)

Start(graph) ==
    [nodes |-> graph.nodes, conns |-> graph.conns, written |-> {},
     log |-> <<>>, exc |-> NoExc]

Fail(g, type, msg) == [g EXCEPT !.exc = Raise(type, msg)]

Entered(g, entry) == [g EXCEPT !.log = Append(@, entry)]

\* cmds.connectAttr(src, dst, force=True)
connectAttr(g, src, dst) ==
    IF g.exc # NoExc THEN g
    ELSE IF ~PlugExists(g, src) \/ ~PlugExists(g, dst)
    THEN Fail(g, "RuntimeError", "The destination attribute cannot be found")
    ELSE IF [src |-> src, dst |-> dst] \in g.conns
    THEN Fail(g, "RuntimeError", "already connected")
    ELSE [g EXCEPT !.conns = {c \in @ : c.dst # dst}
                              \cup {[src |-> src, dst |-> dst]},
                   !.written = @ \cup {dst}]

\* cmds.disconnectAttr(src, dst)
disconnectAttr(g, src, dst) ==
    IF g.exc # NoExc THEN g
    ELSE IF [src |-> src, dst |-> dst] \notin g.conns
    THEN Fail(g, "RuntimeError", "There is no connection to disconnect")
    ELSE [g EXCEPT !.conns = @ \ {[src |-> src, dst |-> dst]}]

\* the node feeding the geometry input of node n, "" without one
Upstream(g, n) ==
    LET into == {c \in g.conns : c.dst = <<n, InputOf(g.nodes[n].type)>>}
    IN  IF into = {} THEN "" ELSE (CHOOSE c \in into : TRUE).src[1]

\* cmds.listHistory of the input of n: n and the nodes upstream of it
RECURSIVE History(_, _)
History(g, n) ==
    IF Upstream(g, n) = "" THEN <<n>> ELSE <<n>> \o History(g, Upstream(g, n))

\* the geometry at the output of n: deformers and connected inputs pass the
\* upstream topology on
RECURSIVE OutGeom(_, _)
OutGeom(g, n) ==
    IF Upstream(g, n) = "" THEN g.nodes[n].geom ELSE OutGeom(g, Upstream(g, n))

\* the uv sets at the output of n
RECURSIVE OutUv(_, _)
OutUv(g, n) ==
    IF Upstream(g, n) = "" THEN g.nodes[n].uv ELSE OutUv(g, Upstream(g, n))

\* cmds.dgeval of the output of a shape: it takes the geometry, uv sets
\* included, that reaches its input
dgeval(g, shape) ==
    IF g.exc # NoExc THEN g
    ELSE LET uv == g.nodes[shape].uv
             in_uv == OutUv(g, shape)
         IN  [g EXCEPT !.nodes[shape].geom = OutGeom(g, shape),
                       !.nodes[shape].uv =
                           IF g.nodes[shape].type # "mesh" THEN uv
                           ELSE [i \in DOMAIN in_uv |->
                                    IF i \in DOMAIN uv THEN uv[i] ELSE FALSE]]

\* a slip: index 0 is removed with the others
clean_uvs_sets_all(g, shape, hostNone) ==
    IF g.exc # NoExc THEN g
    ELSE IF g.nodes[shape].type # "mesh" THEN g
    ELSE [g EXCEPT !.nodes[shape].uv = NoUv]

\* update.clean_uvs_sets
clean_uvs_sets(g, shape, hostNone) ==
    IF g.exc # NoExc THEN g
    ELSE IF g.nodes[shape].type # "mesh" THEN g
    ELSE LET uvs_idx == DOMAIN g.nodes[shape].uv
         IN  IF uvs_idx = {} /\ hostNone
             THEN Fail(g, "TypeError", "'NoneType' object is not iterable")
             ELSE \* each index that is not 0 is unlocked and removed
                  [g EXCEPT !.nodes[shape].uv =
                       [i \in {k \in uvs_idx : k = 0} |-> @[i]]]

\* update.update_shape
update_shape(g, source, target, hostNone) ==
    IF g.exc # NoExc THEN g
    ELSE LET attributes == get_shape_type_attributes(g.nodes[source].type)
             out == <<source, attributes.output>>
             in == <<target, attributes.input>>
             g0 == Entered(g, [op |-> "update_shape", source |-> source,
                               target |-> target])
             g1 == clean_uvs_sets(g0, target, hostNone)
             g2 == connectAttr(g1, out, in)
             g3 == dgeval(g2, target)
         IN  disconnectAttr(g3, out, in)

\* query.get_shape_orig; the empty list stands for None
get_shape_orig(g, shape) ==
    SelectSeq(History(g, shape),
              LAMBDA n : g.nodes[n].type = g.nodes[shape].type /\ n # shape)

\* query.get_parent: listRelatives(parent=True); the empty list stands for
\* None
get_parent(g, element) ==
    IF g.nodes[element].parents = <<>> THEN <<>>
    ELSE <<g.nodes[element].parents[1]>>

Max(S) == CHOOSE x \in S : \A y \in S : y <= x

NextUid(g) == Max({g.nodes[n].uid : n \in DOMAIN g.nodes}) + 1

\* the name the host gives a new node: the asked one unless it is taken
UniqueName(g, name) ==
    IF name \notin DOMAIN g.nodes THEN name
    ELSE IF name \o "1" \notin DOMAIN g.nodes THEN name \o "1"
    ELSE name \o "2"

WithNode(g, name, node) ==
    [g EXCEPT !.nodes = [n \in DOMAIN @ \cup {name} |->
                            IF n = name THEN node ELSE @[n]]]

\* the nodes that go with a deleted DAG node: those all of whose parents go
RECURSIVE Doomed(_, _)
Doomed(g, gone) ==
    LET more == {n \in DOMAIN g.nodes \ gone :
                    /\ g.nodes[n].parents # <<>>
                    /\ \A k \in DOMAIN g.nodes[n].parents :
                           g.nodes[n].parents[k] \in gone}
    IN  IF more = {} THEN gone ELSE Doomed(g, gone \cup more)

\* cmds.delete(node): a deformer goes with the shape it deforms
delete(g, node) ==
    IF g.exc # NoExc THEN g
    ELSE IF node \notin DOMAIN g.nodes
    THEN Fail(g, "ValueError", "No object matches name")
    ELSE LET dag == Doomed(g, {node})
             gone == dag \cup
                 {d \in DOMAIN g.nodes :
                     /\ g.nodes[d].type \in DeformerTypes
                     /\ \E c \in g.conns : c.src[1] = d /\ c.dst[1] \in dag}
         IN  [g EXCEPT
                !.nodes = [n \in DOMAIN @ \ gone |->
                              [@[n] EXCEPT !.parents =
                                  SelectSeq(@, LAMBDA q : q \notin gone)]],
                !.conns = {c \in @ : c.src[1] \notin gone
                                     /\ c.dst[1] \notin gone}]

\* cmds.rename(node, name); the nodes of the graph go by their short names,
\* none in a namespace
rename(g, node, name) ==
    IF g.exc # NoExc THEN g
    ELSE LET new == IF name = node THEN name ELSE UniqueName(g, name)
             to(n) == IF n = node THEN new ELSE n
         IN  [g EXCEPT
                !.nodes = [n \in {to(m) : m \in DOMAIN @} |->
                              LET old == IF n = new THEN node ELSE n
                              IN  [@[old] EXCEPT !.parents =
                                      [k \in DOMAIN @ |-> to(@[k])]]],
                !.conns = {[src |-> <<to(c.src[1]), c.src[2]>>,
                            dst |-> <<to(c.dst[1]), c.dst[2]>>] : c \in @}]

\* cmds.parent(node, parent)
reparent(g, node, new_parent) ==
    IF g.exc # NoExc THEN g
    ELSE IF g.nodes[node].parents = <<new_parent>>
    THEN Fail(g, "RuntimeError", "Object is already a child of the parent")
    ELSE [g EXCEPT !.nodes[node].parents = <<new_parent>>]

\* cmds.parent(shape, transform, add=True, shape=True): instances the shape
parent_add_shape(g, shape, transform) ==
    IF g.exc # NoExc THEN g
    ELSE [g EXCEPT !.nodes[shape].parents = Append(@, transform)]

\* cmds.duplicate(shape, parentOnly=True, name=name): duplicates the
\* transform of the shape without its children
duplicate_parentOnly(g, shape, name) ==
    LET transform == g.nodes[shape].parents[1]
    IN  WithNode(g, name, [g.nodes[transform] EXCEPT !.uid = NextUid(g)])

\* update.update_transform
update_transform(g, source, target, hostNone) ==
    IF g.exc # NoExc THEN g
    ELSE LET g0 == Entered(g, [op |-> "update_transform", source |-> source,
                               target |-> target])
             holder == UniqueName(g0, "mgear_flex_holder")
             g1 == duplicate_parentOnly(g0, source, holder)
             g2 == parent_add_shape(g1, target, holder)
             \* unlocking the holder: the graph keeps no lock of transforms
             g3 == update_shape(g2, source, target, hostNone)
         IN  IF g3.exc # NoExc THEN g3
             ELSE LET target_parent == get_parent(g3, target)[1]
                  IN  IF get_parent(g3, target_parent) = <<>>
                      THEN Fail(g3, "TypeError",
                                "'NoneType' object is not subscriptable")
                      ELSE LET target_parent_parent ==
                                   get_parent(g3, target_parent)[1]
                               g4 == reparent(g3, holder, target_parent_parent)
                               g5 == delete(g4, target_parent)
                           IN  rename(g5, holder, target_parent)

\* update.update_transformed_shape
update_transformed_shape(g, source, target, hold_transform, hostNone) ==
    LET deform_origin == get_shape_orig(g, target)
    IN  IF deform_origin # <<>> THEN g
        ELSE IF hold_transform
        THEN update_shape(g, source, target, hostNone)
        ELSE update_transform(g, source, target, hostNone)

----------------------------------------------------------------------------
(* flex.update: deformed shapes.  flex.query as given holds no             *)
(* is_matching_type, is_matching_count, is_matching_bouding_box,           *)
(* get_deformers and get_prefix_less_name, and flex.decorators no timer:   *)
(* they are taken by their names and by how flex.update uses them, timer   *)
(* as a decorator that calls the function and returns what it returns.     *)

is_matching_type(g, source, target) ==
    g.nodes[source].type = g.nodes[target].type

is_matching_count(g, source, target) ==
    OutGeom(g, source).count = OutGeom(g, target).count

is_matching_bouding_box(g, source, target) ==
    OutGeom(g, source).bbox = OutGeom(g, target).bbox

get_deformers(g, shape) ==
    [skinCluster |-> SelectSeq(History(g, shape),
                               LAMBDA n : g.nodes[n].type = "skinCluster"),
     blendShape |-> SelectSeq(History(g, shape),
                              LAMBDA n : g.nodes[n].type = "blendShape")]

\* the graph holds the nodes by names without namespace
get_prefix_less_name(name) == name

\* cmds.deformer(shape, type=type, name=name), cmds.skinCluster(..., shape):
\* the deformer is put before the input of the shape, behind a new
\* intermediate orig shape when nothing fed the shape
deformer(g, shape, type, name) ==
    IF g.exc # NoExc THEN g
    ELSE LET node == g.nodes[shape]
             in == <<shape, InputOf(node.type)>>
             fed == {c \in g.conns : c.dst = in}
             orig == UniqueName(g, shape \o "Orig")
             uid == NextUid(g)
             g1 == IF fed = {}
                   THEN WithNode(g, orig, [node EXCEPT !.intermediate = TRUE,
                                                       !.uid = uid])
                   ELSE g
             g2 == WithNode(g1, name,
                            Node(type, <<>>, FALSE, NoGeom, NoUv, "", uid + 1))
             from == IF fed = {}
                     THEN <<orig, get_shape_type_attributes(node.type).output>>
                     ELSE (CHOOSE c \in fed : TRUE).src
         IN  [g2 EXCEPT !.conns =
                 (@ \ fed) \cup {[src |-> from, dst |-> <<name, "input">>],
                                 [src |-> <<name, "outputGeometry">>,
                                  dst |-> in]}]

\* update.copy_map1_name: the name goes to uvSet[0] of the target, an
\* element setAttr makes when it is not there; a locked one is left
copy_map1_name(g, source, target) ==
    IF g.exc # NoExc THEN g
    ELSE IF ~is_matching_type(g, source, target) THEN g
    ELSE IF g.nodes[target].type # "mesh" \/ 0 \in DOMAIN g.nodes[target].uv
    THEN g
    ELSE [g EXCEPT !.nodes[target].uv =
             [i \in DOMAIN @ \cup {0} |-> IF i = 0 THEN FALSE ELSE @[i]]]

\* update.update_uvs_sets: outForceNodeUVUpdate is no state of the graph
update_uvs_sets(g, shape) == g

\* update.copy_skin_weights: the weights are laid out on the points the
\* target skin cluster deforms
copy_skin_weights(g, source_skin, target_skin) ==
    IF g.exc # NoExc THEN g
    ELSE [g EXCEPT !.nodes[target_skin].weights = OutGeom(g, target_skin).count]

\* the shape update.create_duplicate returns for a duplicate name
DuplicateShape(duplicate_name) == duplicate_name \o "Shape"

\* update.create_duplicate: createNode makes the shape under a transform
create_duplicate(g, shape, duplicate_name, hostNone) ==
    IF g.exc # NoExc THEN g
    ELSE LET shape_holder == DuplicateShape(duplicate_name)
             uid == NextUid(g)
             g1 == WithNode(g, duplicate_name,
                            Node("transform", <<>>, FALSE, NoGeom, NoUv, "",
                                 uid))
             g2 == WithNode(g1, shape_holder,
                            Node(g.nodes[shape].type, <<duplicate_name>>,
                                 FALSE, NoGeom, NoUv, "", uid + 1))
         IN  update_shape(g2, shape, shape_holder, hostNone)

SkinHolderName(shape) == get_prefix_less_name(shape) \o "_flex_skin_shape_holder"

\* update.create_skin_backup; it returns DuplicateShape(SkinHolderName(shape))
\* and the skin cluster SkinHolderName(shape) \o "_SKN"
create_skin_backup(g, shape, skin_node, hostNone) ==
    LET holder_name == SkinHolderName(shape)
        g1 == create_duplicate(g, shape, holder_name, hostNone)
        g2 == deformer(g1, DuplicateShape(holder_name), "skinCluster",
                       holder_name \o "_SKN")
    IN  copy_skin_weights(g2, skin_node, holder_name \o "_SKN")

\* update.copy_blendshape_node for each node of nodes
RECURSIVE copy_blendshape_nodes(_, _, _)
copy_blendshape_nodes(g, nodes, target) ==
    IF nodes = <<>> THEN g
    ELSE copy_blendshape_nodes(
             deformer(g, target, "blendShape", "flex_copy_" \o Head(nodes)),
             Tail(nodes), target)

\* update.create_wrap: get_shape_type_attributes gives no "output_world"
create_wrap(g, source, target) ==
    LET g1 == deformer(g, target, "wrap", "flex_warp")
    IN  IF g1.exc # NoExc THEN g1
        ELSE Fail(g1, "KeyError", "output_world")

\* update.create_blendshapes_backup, up to create_wrap which always raises
create_blendshapes_backup(g, source, target, nodes, hostNone) ==
    LET shape_name == get_prefix_less_name(target)
        intermediate == get_shape_orig(g, source)[1]
        source_name == shape_name \o "_flex_bs_sourceShape"
        g1 == create_duplicate(g, intermediate, source_name, hostNone)
        g2 == copy_blendshape_nodes(g1, nodes, DuplicateShape(source_name))
        warp_name == shape_name \o "_flex_bs_warpShape"
        g3 == create_duplicate(g2, target, warp_name, hostNone)
    IN  create_wrap(g3, DuplicateShape(source_name), DuplicateShape(warp_name))

\* update.update_deformed_mismatching_shape
update_deformed_mismatching_shape(g, source, target, shape_orig, hostNone) ==
    LET g0 == Entered(g, [op |-> "update_deformed_mismatching_shape",
                          source |-> source, target |-> target])
        deformers == get_deformers(g0, target)
        g1 == IF Len(deformers.blendShape) > 0
              THEN create_blendshapes_backup(g0, target, source,
                                             deformers.blendShape, hostNone)
              ELSE g0
    IN  IF g1.exc # NoExc THEN g1
        ELSE IF deformers.skinCluster = <<>>
        THEN Fail(g1, "IndexError", "list index out of range")
        ELSE LET skin == deformers.skinCluster[1]
                 holder_name == SkinHolderName(shape_orig)
                 g2 == create_skin_backup(g1, shape_orig, skin, hostNone)
                 g3 == update_shape(g2, source, shape_orig, hostNone)
                 g4 == copy_skin_weights(g3, holder_name \o "_SKN", skin)
                 g5 == delete(g4, holder_name)
             IN  IF g5.exc # NoExc THEN g5
                 ELSE \* bs_shape is bound only where blendShape nodes are,
                      \* and there the backup has raised
                      Fail(g5, "UnboundLocalError",
                           "local variable 'bs_shape' referenced before assignment")

\* a slip: the deformed shape itself is given the geometry
update_deformed_onto_target(g, source, target, mismatching_topology, hostNone) ==
    LET deform_origin == get_shape_orig(g, target)
    IN  IF deform_origin = <<>> THEN g
        ELSE IF ~is_matching_type(g, source, target) THEN g
        ELSE update_uvs_sets(update_shape(g, source, target, hostNone), target)

\* update.update_deformed_shape
update_deformed_shape(g, source, target, mismatching_topology, hostNone) ==
    LET deform_origin == get_shape_orig(g, target)
    IN  IF deform_origin = <<>> THEN g
        ELSE IF ~is_matching_type(g, source, target) THEN g
        ELSE IF ~mismatching_topology /\ ~is_matching_count(g, source, target)
        THEN g
        ELSE LET orig == deform_origin[1]
                 g1 == copy_map1_name(g, source, orig)
             IN  IF /\ mismatching_topology
                    /\ ~is_matching_count(g1, source, target)
                    /\ is_matching_bouding_box(g1, source, target)
                 THEN update_deformed_mismatching_shape(g1, source, target,
                                                        orig, hostNone)
                 ELSE update_uvs_sets(
                          update_shape(g1, source, orig, hostNone), target)

----------------------------------------------------------------------------
(* State *)

NotRun == [done |-> FALSE, value |-> EmptyDict]
Returned(v) == [done |-> TRUE, value |-> v]

NoUserAttrsCall ==
    [pc |-> "idle", attrs |-> <<>>, i |-> 0, log |-> <<>>,
     pre |-> EmptyDict, exc |-> NoExc]

NoAttrCall ==
    [done |-> FALSE, name |-> "", pre |-> EmptyDict, ret |-> NoExc,
     exc |-> NoExc]

AttrIdle ==
    /\ src_attrs = EmptyDict
    /\ tgt_attrs = EmptyDict
    /\ ua = NoUserAttrsCall
    /\ attr_call = NoAttrCall

NoGraph == [nodes |-> EmptyDict, conns |-> {}]

NoGraphCall ==
    [done |-> FALSE, name |-> "", source |-> "", target |-> "",
     flag |-> FALSE, exc |-> NoExc, written |-> {}, log |-> <<>>]

GraphIdle ==
    /\ dg = NoGraph
    /\ pre_dg = NoGraph
    /\ none_for_empty = FALSE
    /\ graph_call = NoGraphCall

UpdateIdle == AttrIdle /\ GraphIdle

DictIdle ==
    /\ elements = <<>>
    /\ prefix_dict = NotRun

NoRigCall ==
    [done |-> FALSE, analytic |-> TRUE, run_options |-> NoOptions,
     exc |-> NoExc, called_update |-> FALSE, update_ran |-> FALSE,
     message_shown |-> FALSE]

\* Flex.__init__
FlexConstructed ==
    /\ source_group = PyNone
    /\ target_group = PyNone
    /\ source_text = ""
    /\ target_text = ""
    /\ ui_visible = FALSE
    /\ rig_call = NoRigCall

NoShapesCall == [done |-> FALSE, group |-> "", exc |-> NoExc, value |-> <<>>]

SceneIdle ==
    /\ scene = <<>>
    /\ shapes_call = NoShapesCall

MatchIdle ==
    /\ source_shapes = EmptyDict
    /\ target_shapes = EmptyDict
    /\ matching = NotRun
    /\ missing = NotRun

----------------------------------------------------------------------------
(* get_prefix_less_dict applied to every bounded list of names *)

InitPrefix ==
    /\ elements \in Lists(Names \cup ShapeNames, MaxElems)
    /\ prefix_dict = NotRun
    /\ MatchIdle
    /\ SceneIdle
    /\ FlexConstructed
    /\ UpdateIdle

GetPrefixLessDict ==
    /\ ~prefix_dict.done
    /\ prefix_dict' = Returned(get_prefix_less_dict(elements))
    /\ UNCHANGED <<elements, source_shapes, target_shapes, matching, missing>>
    /\ UNCHANGED <<scene_vars, flex_vars>>
    /\ UNCHANGED update_vars

NextPrefix == GetPrefixLessDict

SpecPrefix == InitPrefix /\ [][NextPrefix]_vars

----------------------------------------------------------------------------
(* get_matching_shapes / get_missing_shapes on every pair of dicts *)

InitMatch ==
    /\ source_shapes \in PrefixLessDicts
    /\ target_shapes \in PrefixLessDicts
    /\ matching = NotRun
    /\ missing = NotRun
    /\ DictIdle
    /\ SceneIdle
    /\ FlexConstructed
    /\ UpdateIdle

GetMatchingShapes ==
    /\ ~matching.done
    /\ \E order \in KeyOrders(source_shapes) :
         matching' = Returned(get_matching_shapes(source_shapes,
                                                  target_shapes, order))
    /\ UNCHANGED <<elements, prefix_dict, source_shapes, target_shapes,
                   missing>>
    /\ UNCHANGED <<scene_vars, flex_vars>>
    /\ UNCHANGED update_vars

GetMissingShapes ==
    /\ ~missing.done
    /\ \E order \in KeyOrders(source_shapes) :
         missing' = Returned(get_missing_shapes(source_shapes,
                                                target_shapes, order))
    /\ UNCHANGED <<elements, prefix_dict, source_shapes, target_shapes,
                   matching>>
    /\ UNCHANGED <<scene_vars, flex_vars>>
    /\ UNCHANGED update_vars

NextMatch == GetMatchingShapes \/ GetMissingShapes

SpecMatch == InitMatch /\ [][NextMatch]_vars

----------------------------------------------------------------------------
(* get_shapes_from_group on the scenes built by creating nodes and binding *)
(* skin clusters                                                           *)

InitScene ==
    /\ scene = <<>>
    /\ shapes_call = NoShapesCall
    /\ DictIdle
    /\ MatchIdle
    /\ FlexConstructed
    /\ UpdateIdle

CanCreate ==
    /\ ~shapes_call.done
    /\ Len(scene) < MaxNodes
    /\ Len(scene) < Len(NodeNames)

Transforms(sc) == {i \in DOMAIN sc : sc[i].type = "transform"}

\* cmds.createNode / cmds.polySphere: a transform or joint under the world or
\* a transform, a shape under a transform
CreateNode(type, parent) ==
    /\ CanCreate
    /\ parent \in Transforms(scene) \cup {0}
    /\ type \in ShapeTypes => parent # 0
    /\ scene' = Append(scene, [name |-> NodeNames[Len(scene) + 1],
                               type |-> type,
                               parent |-> parent,
                               intermediate |-> FALSE])
    /\ UNCHANGED shapes_call
    /\ UNCHANGED <<dict_vars, flex_vars>>
    /\ UNCHANGED update_vars

HasOrig(sc, s) ==
    \E o \in DOMAIN sc : /\ sc[o].intermediate
                         /\ sc[o].parent = sc[s].parent
                         /\ sc[o].type = sc[s].type

\* cmds.skinCluster(joint, transform): Maya keeps the undeformed geometry in
\* a new intermediate shape beside the deformed one
SkinCluster(j, s) ==
    /\ CanCreate
    /\ scene[j].type = "joint"
    /\ scene[s].type \in ShapeTypes
    /\ ~scene[s].intermediate
    /\ ~HasOrig(scene, s)
    /\ scene' = Append(scene, [name |-> NodeNames[Len(scene) + 1],
                               type |-> scene[s].type,
                               parent |-> scene[s].parent,
                               intermediate |-> TRUE])
    /\ UNCHANGED shapes_call
    /\ UNCHANGED <<dict_vars, flex_vars>>
    /\ UNCHANGED update_vars

GetShapesFromGroup(group) ==
    /\ ~shapes_call.done
    /\ LET r == get_shapes_from_group(scene, group)
       IN  shapes_call' = [done |-> TRUE, group |-> group,
                           exc |-> r.exc, value |-> r.value]
    /\ UNCHANGED scene
    /\ UNCHANGED <<dict_vars, flex_vars>>
    /\ UNCHANGED update_vars

NextScene ==
    \/ \E type \in NodeTypes, parent \in 0..Len(scene) : CreateNode(type, parent)
    \/ \E j, s \in DOMAIN scene : SkinCluster(j, s)
    \/ \E i \in DOMAIN NodeNames : GetShapesFromGroup(NodeNames[i])

SpecScene == InitScene /\ [][NextScene]_vars

----------------------------------------------------------------------------
(* The Flex object: its properties, its dialog and update_rig *)

InitFlex ==
    /\ FlexConstructed
    /\ scene = FlexScene
    /\ shapes_call = NoShapesCall
    /\ DictIdle
    /\ MatchIdle
    /\ UpdateIdle

\* Flex.__update_ui with the groups as just set
update_ui(source, target) ==
    IF ui_visible
    THEN source_text' = Text(source) /\ target_text' = Text(target)
    ELSE UNCHANGED <<source_text, target_text>>

\* the source_group property setter
SetSourceGroup(value) ==
    /\ ~rig_call.done
    /\ source_group' = value
    /\ update_ui(value, target_group)
    /\ UNCHANGED <<target_group, ui_visible, rig_call>>
    /\ UNCHANGED <<dict_vars, scene_vars>>
    /\ UNCHANGED update_vars

\* the target_group property setter
SetTargetGroup(value) ==
    /\ ~rig_call.done
    /\ target_group' = value
    /\ update_ui(source_group, value)
    /\ UNCHANGED <<source_group, ui_visible, rig_call>>
    /\ UNCHANGED <<dict_vars, scene_vars>>
    /\ UNCHANGED update_vars

\* Flex.__set_button_edits for the source button, with node `selected` (0: none)
\* selected in Maya
SourceButtonClicked(selected) ==
    /\ ~rig_call.done
    /\ ui_visible
    /\ LET value == get_transform_selection(scene, selected)
       IN  /\ source_group' = value
           /\ source_text' = Text(value)
           /\ target_text' = IF ui_visible THEN Text(target_group)
                             ELSE target_text
    /\ UNCHANGED <<target_group, ui_visible, rig_call>>
    /\ UNCHANGED <<dict_vars, scene_vars>>
    /\ UNCHANGED update_vars

\* Flex.__set_button_edits for the target button
TargetButtonClicked(selected) ==
    /\ ~rig_call.done
    /\ ui_visible
    /\ LET value == get_transform_selection(scene, selected)
       IN  /\ target_group' = value
           /\ target_text' = Text(value)
           /\ source_text' = IF ui_visible THEN Text(source_group)
                             ELSE source_text
    /\ UNCHANGED <<source_group, ui_visible, rig_call>>
    /\ UNCHANGED <<dict_vars, scene_vars>>
    /\ UNCHANGED update_vars

\* the user edits the source text to `text`: Flex.__set_text_edits
SourceTextEdited(text) ==
    /\ ~rig_call.done
    /\ ui_visible
    /\ text # source_text
    /\ LET value == IF text = "" THEN PyNone ELSE text
       IN  /\ source_group' = value
           /\ source_text' = Text(value)
           /\ target_text' = Text(target_group)
    /\ UNCHANGED <<target_group, ui_visible, rig_call>>
    /\ UNCHANGED <<dict_vars, scene_vars>>
    /\ UNCHANGED update_vars

\* the user edits the target text to `text`: Flex.__set_text_edits
TargetTextEdited(text) ==
    /\ ~rig_call.done
    /\ ui_visible
    /\ text # target_text
    /\ LET value == IF text = "" THEN PyNone ELSE text
       IN  /\ target_group' = value
           /\ target_text' = Text(value)
           /\ source_text' = Text(source_group)
    /\ UNCHANGED <<source_group, ui_visible, rig_call>>
    /\ UNCHANGED <<dict_vars, scene_vars>>
    /\ UNCHANGED update_vars

\* Flex.launch in an interactive session
Launch ==
    /\ ~rig_call.done
    /\ ~ui_visible
    /\ ui_visible' = TRUE
    /\ source_text' = Text(source_group)
    /\ target_text' = Text(target_group)
    /\ UNCHANGED <<source_group, target_group, rig_call>>
    /\ UNCHANGED <<dict_vars, scene_vars>>
    /\ UNCHANGED update_vars

\* the user closes the dialog
CloseDialog ==
    /\ ~rig_call.done
    /\ ui_visible
    /\ ui_visible' = FALSE
    /\ UNCHANGED <<source_group, target_group, source_text, target_text,
                   rig_call>>
    /\ UNCHANGED <<dict_vars, scene_vars>>
    /\ UNCHANGED update_vars

\* Flex.update_rig(analytic, run_options), also the analyse and run buttons
UpdateRig(analytic, run_options) ==
    /\ ~rig_call.done
    /\ LET r == Flex_update_rig(scene, source_group, target_group,
                                analytic, run_options)
       IN  rig_call' = [done |-> TRUE, analytic |-> analytic,
                        run_options |-> run_options,
                        exc |-> r.exc,
                        called_update |-> r.called_update,
                        update_ran |-> r.update_ran,
                        message_shown |-> r.message_shown]
    /\ UNCHANGED <<source_group, target_group, source_text, target_text,
                   ui_visible>>
    /\ UNCHANGED <<dict_vars, scene_vars>>
    /\ UNCHANGED update_vars

NextFlex ==
    \/ \E value \in GroupValues : SetSourceGroup(value)
    \/ \E value \in GroupValues : SetTargetGroup(value)
    \/ \E selected \in 0..Len(scene) : SourceButtonClicked(selected)
    \/ \E selected \in 0..Len(scene) : TargetButtonClicked(selected)
    \/ \E text \in Texts : SourceTextEdited(text)
    \/ \E text \in Texts : TargetTextEdited(text)
    \/ Launch
    \/ CloseDialog
    \/ \E analytic \in BOOLEAN, run_options \in RunOptions :
          UpdateRig(analytic, run_options)

SpecFlex == InitFlex /\ [][NextFlex]_vars

----------------------------------------------------------------------------
(* update_attribute and update_user_attributes on every source and target  *)
(* attribute set                                                           *)

InitAttr ==
    /\ src_attrs \in AttrDicts(SourceAttrs)
    /\ tgt_attrs \in AttrDicts(TargetAttrs)
    /\ ua = NoUserAttrsCall
    /\ attr_call = NoAttrCall
    /\ GraphIdle
    /\ DictIdle
    /\ MatchIdle
    /\ SceneIdle
    /\ FlexConstructed

AttrFree == ua.pc = "idle" /\ ~attr_call.done

\* update_attribute(source, target, name) called on its own, as
\* update_maya_attributes and update_plugin_attributes do
UpdateAttribute(name) ==
    /\ AttrFree
    /\ LET r == update_attribute(src_attrs, tgt_attrs, name)
       IN  /\ tgt_attrs' = r.tgt
           /\ attr_call' = [done |-> TRUE, name |-> name, pre |-> tgt_attrs,
                            ret |-> r.ret, exc |-> r.exc]
    /\ UNCHANGED <<src_attrs, ua>>
    /\ UNCHANGED <<dict_vars, scene_vars, flex_vars, graph_vars>>

\* update_user_attributes: the listAttr and the early return
UserAttrsStart ==
    /\ AttrFree
    /\ LET user_attributes == listAttr_userDefined(src_attrs)
       IN  ua' = [pc |-> IF user_attributes = <<>> THEN "done" ELSE "add",
                  attrs |-> user_attributes,
                  i |-> 1,
                  log |-> <<>>,
                  pre |-> tgt_attrs,
                  exc |-> NoExc]
    /\ UNCHANGED <<src_attrs, tgt_attrs, attr_call>>
    /\ UNCHANGED <<dict_vars, scene_vars, flex_vars, graph_vars>>

\* update_user_attributes: one round of the addAttr loop
UserAttrsAdd ==
    /\ ua.pc = "add"
    /\ LET name == ua.attrs[ua.i]
           r == add_attribute(src_attrs, tgt_attrs, name)
           next == after_add(ua.i, Len(ua.attrs))
           log == Append(ua.log, [op |-> "add_attribute", name |-> name])
       IN  /\ tgt_attrs' = r.tgt
           /\ ua' = IF r.exc # NoExc
                    THEN [ua EXCEPT !.pc = "raised", !.log = log,
                                    !.exc = r.exc]
                    ELSE [ua EXCEPT !.pc = next.pc, !.i = next.i,
                                    !.log = log]
    /\ UNCHANGED <<src_attrs, attr_call>>
    /\ UNCHANGED <<dict_vars, scene_vars, flex_vars, graph_vars>>

\* update_user_attributes: one round of the setAttr loop
UserAttrsUpdate ==
    /\ ua.pc = "update"
    /\ LET name == ua.attrs[ua.i]
           r == update_attribute(src_attrs, tgt_attrs, name)
           next == after_update(ua.i, Len(ua.attrs))
           log == Append(ua.log, [op |-> "update_attribute", name |-> name])
       IN  /\ tgt_attrs' = r.tgt
           /\ ua' = IF r.exc # NoExc
                    THEN [ua EXCEPT !.pc = "raised", !.log = log,
                                    !.exc = r.exc]
                    ELSE [ua EXCEPT !.pc = next.pc, !.i = next.i,
                                    !.log = log]
    /\ UNCHANGED <<src_attrs, attr_call>>
    /\ UNCHANGED <<dict_vars, scene_vars, flex_vars, graph_vars>>

NextAttr ==
    \/ \E name \in AttrNameSet : UpdateAttribute(name)
    \/ UserAttrsStart
    \/ UserAttrsAdd
    \/ UserAttrsUpdate

SpecAttr == InitAttr /\ [][NextAttr]_vars

----------------------------------------------------------------------------
(* SpecGraph: the shape updates of flex.update on a source and a target    *)
(* shape.  The source shape hangs under a transform of the source group.   *)
(* The target shape hangs under a transform that is in the target group or *)
(* at world level, and is plain, fed by construction history, or deformed: *)
(* then an intermediate orig shape under the same transform feeds it       *)
(* through the deformers, and the orig shape may keep its own history.     *)

SourceShape == "src_bodyShape"
TargetShape == "tgt_bodyShape"
OrigShape == "tgt_bodyShapeOrig"

RigKinds == {"plain", "history", "skin", "blend", "skin_blend", "cluster"}

\* the deformers between the orig and the target shape, orig side first
DeformersOf(kind) ==
    CASE kind = "skin" -> <<"skinCluster1">>
      [] kind = "blend" -> <<"blendShape1">>
      [] kind = "skin_blend" -> <<"skinCluster1", "blendShape1">>
      [] kind = "cluster" -> <<"cluster1">>
      [] OTHER -> <<>>

DeformerType(name) ==
    CASE name = "skinCluster1" -> "skinCluster"
      [] name = "blendShape1" -> "blendShape"
      [] OTHER -> "cluster"

Generator(type) == IF type = "mesh" THEN "polySphere" ELSE "makeNurbCircle"

Counts == {8, 12}
BBoxes == {"rest", "moved"}
Geoms == [count : Counts, bbox : BBoxes]
TargetGeom == [count |-> 8, bbox |-> "rest"]

UvConfigs == UNION {[D -> BOOLEAN] : D \in SUBSET (0 .. MaxUvIndex)}
SourceUv == [i \in 0 .. MaxUvIndex |-> FALSE]

UvFor(type, uv) == IF type = "mesh" THEN uv ELSE NoUv

\* the chain of connections orig -> deformers -> target
RECURSIVE Chain(_, _, _, _)
Chain(from, deformers, target, type) ==
    IF deformers = <<>>
    THEN {[src |-> from, dst |-> <<target, InputOf(type)>>]}
    ELSE {[src |-> from, dst |-> <<Head(deformers), "input">>]}
         \cup Chain(<<Head(deformers), "outputGeometry">>, Tail(deformers),
                    target, type)

BuildGraph(stype, ttype, sgeom, kind, orig_history, grouped, uv) ==
    LET deformers == DeformersOf(kind)
        deformed == deformers # <<>>
        history == kind = "history" \/ (deformed /\ orig_history)
        fed == IF deformed THEN OrigShape ELSE TargetShape
        base ==
            ("src_grp" :> Node("transform", <<>>, FALSE, NoGeom, NoUv,
                               "source", 1))
         @@ ("src_body" :> Node("transform", <<"src_grp">>, FALSE, NoGeom,
                                NoUv, "source", 2))
         @@ (SourceShape :> Node(stype, <<"src_body">>, FALSE, sgeom,
                                 UvFor(stype, SourceUv), "", 3))
         @@ ("tgt_body" :> Node("transform",
                                IF grouped THEN <<"tgt_grp">> ELSE <<>>,
                                FALSE, NoGeom, NoUv, "target", 4))
         @@ (TargetShape :> Node(ttype, <<"tgt_body">>, FALSE, TargetGeom,
                                 UvFor(ttype, uv), "", 5))
        group == IF grouped
                 THEN "tgt_grp" :> Node("transform", <<>>, FALSE, NoGeom,
                                        NoUv, "target", 6)
                 ELSE EmptyDict
        orig == IF deformed
                THEN OrigShape :> Node(ttype, <<"tgt_body">>, TRUE,
                                       TargetGeom, UvFor(ttype, uv), "", 7)
                ELSE EmptyDict
        defs == [d \in {deformers[k] : k \in DOMAIN deformers} |->
                    [Node(DeformerType(d), <<>>, FALSE, NoGeom, NoUv, "", 8)
                        EXCEPT !.weights = IF DeformerType(d) = "skinCluster"
                                           THEN TargetGeom.count ELSE 0]]
        gen == IF history
               THEN "history1" :> Node(Generator(ttype), <<>>, FALSE,
                                       TargetGeom, UvFor(ttype, uv), "", 9)
               ELSE EmptyDict
    IN  [nodes |-> base @@ group @@ orig @@ defs @@ gen,
         conns |->
            (IF deformed
             THEN Chain(<<OrigShape, get_shape_type_attributes(ttype).output>>,
                        deformers, TargetShape, ttype)
             ELSE {})
            \cup
            (IF history
             THEN {[src |-> <<"history1",
                              IF ttype = "mesh" THEN "output"
                              ELSE "outputCurve">>,
                    dst |-> <<fed, InputOf(ttype)>>]}
             ELSE {})]

InitGraph ==
    /\ \E stype \in {"mesh", "nurbsCurve"}, ttype \in {"mesh", "nurbsCurve"},
          sgeom \in Geoms, kind \in RigKinds, orig_history \in BOOLEAN,
          grouped \in BOOLEAN, uv \in UvConfigs :
            /\ (DeformersOf(kind) = <<>> => ~orig_history)
            /\ (ttype # "mesh" => uv = NoUv)
            /\ dg = BuildGraph(stype, ttype, sgeom, kind, orig_history,
                               grouped, uv)
    /\ pre_dg = NoGraph
    /\ none_for_empty \in BOOLEAN
    /\ graph_call = NoGraphCall
    /\ AttrIdle
    /\ DictIdle
    /\ MatchIdle
    /\ SceneIdle
    /\ FlexConstructed

GraphFree == ~graph_call.done

Shapes(graph) == {n \in DOMAIN graph.nodes : graph.nodes[n].type \in ShapeTypes}

\* the operation has run: the graph is what the run left, failed or not
Finish(name, source, target, flag, g) ==
    /\ dg' = [nodes |-> g.nodes, conns |-> g.conns]
    /\ pre_dg' = dg
    /\ graph_call' = [done |-> TRUE, name |-> name, source |-> source,
                      target |-> target, flag |-> flag, exc |-> g.exc,
                      written |-> g.written, log |-> g.log]
    /\ UNCHANGED <<none_for_empty, attr_vars, dict_vars, scene_vars,
                   flex_vars>>

CleanUvsSets(shape) ==
    /\ GraphFree
    /\ Finish("clean_uvs_sets", "", shape, FALSE,
              clean_uvs_sets(Start(dg), shape, none_for_empty))

\* the target is not upstream of the source
NoCycle(source, target) ==
    \A k \in DOMAIN History(dg, source) : History(dg, source)[k] # target

UpdateShape(source, target) ==
    /\ GraphFree
    /\ NoCycle(source, target)
    /\ Finish("update_shape", source, target, FALSE,
              update_shape(Start(dg), source, target, none_for_empty))

UpdateTransformedShape(source, target, hold_transform) ==
    /\ GraphFree
    /\ NoCycle(source, target)
    /\ Finish("update_transformed_shape", source, target, hold_transform,
              update_transformed_shape(Start(dg), source, target,
                                       hold_transform, none_for_empty))

\* neither shape is in the history of the other
Unrelated(source, target) ==
    /\ NoCycle(source, target)
    /\ NoCycle(target, source)

UpdateDeformedShape(source, target, mismatching_topology) ==
    /\ GraphFree
    /\ Unrelated(source, target)
    /\ Finish("update_deformed_shape", source, target, mismatching_topology,
              update_deformed_shape(Start(dg), source, target,
                                    mismatching_topology, none_for_empty))

NextGraph ==
    \/ \E shape \in Shapes(dg) : CleanUvsSets(shape)
    \/ \E source \in Shapes(dg), target \in Shapes(dg),
          mismatching_topology \in BOOLEAN :
           UpdateDeformedShape(source, target, mismatching_topology)
    \/ \E source \in Shapes(dg), target \in Shapes(dg) :
           UpdateShape(source, target)
    \/ \E source \in Shapes(dg), target \in Shapes(dg),
          hold_transform \in BOOLEAN :
           UpdateTransformedShape(source, target, hold_transform)

SpecGraph == InitGraph /\ [][NextGraph]_vars

----------------------------------------------------------------------------
(* Properties of the dict helpers *)

\* the part of s after the last sep; all of s when sep does not occur
AfterLast(s, sep) ==
    IF \A i \in 1..Len(s) : s[i] # sep
    THEN s
    ELSE LET i == CHOOSE k \in 1..Len(s) :
                      s[k] = sep /\ \A j \in (k + 1)..Len(s) : s[j] # sep
         IN  [j \in 1..(Len(s) - i) |-> s[i + j]]

Stripped(n) == AfterLast(AfterLast(n, "|"), ":")

SharedKeys == DOMAIN source_shapes \cap DOMAIN target_shapes
SourceOnlyKeys == DOMAIN source_shapes \ DOMAIN target_shapes

\* C1: get_matching_shapes returns the dict that maps source_shapes[s] to
\* target_shapes[s] for exactly the prefix-less names s that are keys of both
\* dicts, and nothing else.
C1_MatchingShapes ==
    matching.done =>
        /\ DOMAIN matching.value = {source_shapes[s] : s \in SharedKeys}
        /\ \A s \in SharedKeys :
             matching.value[source_shapes[s]] = target_shapes[s]

C1_Witness ==
    /\ matching.done
    /\ SharedKeys # {}
    /\ SourceOnlyKeys # {}
    /\ \E s \in SharedKeys : source_shapes[s] # s /\ target_shapes[s] = s

\* C2: get_missing_shapes returns the dict that maps source_shapes[s] to s
\* for exactly the prefix-less names s that are keys of source_shapes and not
\* of target_shapes, and nothing else.
C2_MissingShapes ==
    missing.done =>
        /\ DOMAIN missing.value = {source_shapes[s] : s \in SourceOnlyKeys}
        /\ \A s \in SourceOnlyKeys : missing.value[source_shapes[s]] = s

C2_Witness ==
    /\ missing.done
    /\ SharedKeys # {}
    /\ \E s \in SourceOnlyKeys : source_shapes[s] # s

\* C3: every key of get_prefix_less_dict(elements) is the name of an element
\* with everything up to its last "|" and then everything up to its last ":"
\* removed, it holds no "|" and no ":", and its value is an element of the
\* input, unmodified, whose stripped name is the key.
C3_PrefixLessKeys ==
    prefix_dict.done =>
        \A k \in DOMAIN prefix_dict.value :
            /\ \E i \in DOMAIN elements : k = Stripped(elements[i])
            /\ \A j \in DOMAIN k : k[j] \notin {"|", ":"}
            /\ \E i \in DOMAIN elements : prefix_dict.value[k] = elements[i]
            /\ Stripped(prefix_dict.value[k]) = k

C3_Witness ==
    /\ prefix_dict.done
    /\ \E k \in DOMAIN prefix_dict.value :
         /\ k # <<>>
         /\ \E j \in DOMAIN prefix_dict.value[k] :
              prefix_dict.value[k][j] = ":"

\* a name Maya can give a shape: no empty path or namespace segment
IsShapeName(n) ==
    /\ n # <<>>
    /\ n[1] \notin {"|", ":"}
    /\ n[Len(n)] \notin {"|", ":"}
    /\ \A j \in 1..(Len(n) - 1) :
         ~(n[j] \in {"|", ":"} /\ n[j + 1] \in {"|", ":"})

\* C4: for every list of shape names, every element of the list given to
\* get_prefix_less_dict is a value of the returned dict.
C4_EveryElementKept ==
    (prefix_dict.done /\ \A i \in DOMAIN elements : IsShapeName(elements[i])) =>
        \A i \in DOMAIN elements : elements[i] \in Values(prefix_dict.value)

----------------------------------------------------------------------------
(* Properties of get_shapes_from_group *)

CalledNode == NodeIndex(scene, shapes_call.group)

\* the nodes at or below the group that hold geometry, hidden ones included
ShapesUnder(g) ==
    {i \in DOMAIN scene :
        /\ scene[i].type \in ShapeTypes
        /\ \E k \in DOMAIN Dag(scene, g) : Dag(scene, g)[k] = i}

\* the group is a transform holding one visible mesh and its orig shape
SkinnedMeshCase(s) ==
    /\ shapes_call.done
    /\ objExists(scene, shapes_call.group)
    /\ scene[CalledNode].type = "transform"
    /\ scene[s].type = "mesh"
    /\ ~scene[s].intermediate
    /\ scene[s].parent = CalledNode
    /\ \E o \in DOMAIN scene :
         /\ scene[o].type = "mesh"
         /\ scene[o].intermediate
         /\ scene[o].parent = CalledNode
         /\ ShapesUnder(CalledNode) = {s, o}

\* C9: the shapes gathered from a transform never include an intermediate
\* (orig) shape, and for a transform whose single mesh shape has a hidden
\* orig shape beside it the returned list is exactly the visible shape.
C9_NoIntermediateShapes ==
    /\ shapes_call.done =>
         \A k \in DOMAIN shapes_call.value :
            /\ objExists(scene, shapes_call.value[k])
            /\ ~scene[NodeIndex(scene, shapes_call.value[k])].intermediate
    /\ \A s \in DOMAIN scene :
         SkinnedMeshCase(s) =>
            /\ shapes_call.exc = NoExc
            /\ shapes_call.value = <<scene[s].name>>

C9_Witness == \E s \in DOMAIN scene : SkinnedMeshCase(s)

\* C10: get_shapes_from_group raises RuntimeError when the group does not
\* exist, ValueError when it exists but holds no mesh, nurbsCurve or
\* nurbsSurface shape, and a list it returns is never empty.
C10_ShapesOrRaise ==
    shapes_call.done =>
        /\ ~objExists(scene, shapes_call.group) =>
              shapes_call.exc.type = "RuntimeError"
        /\ (objExists(scene, shapes_call.group) /\ ShapesUnder(CalledNode) = {})
              => shapes_call.exc.type = "ValueError"
        /\ shapes_call.exc = NoExc => shapes_call.value # <<>>

C10_Witness ==
    /\ shapes_call.done
    /\ objExists(scene, shapes_call.group)
    /\ Len(Dag(scene, CalledNode)) > 1
    /\ ShapesUnder(CalledNode) = {}
    /\ shapes_call.exc.type = "ValueError"

----------------------------------------------------------------------------
(* Properties of Flex.update_rig *)

HoldsShapes(group) == get_shapes_from_group(scene, group).exc = NoExc

\* C5: whatever assignments, button edits and text edits came before,
\* Flex.update_rig called while source_group or target_group is None or empty
\* raises ValueError and does not call update.update_rig.
C5_UnsetGroupRaises ==
    (rig_call.done /\ (~Truthy(source_group) \/ ~Truthy(target_group))) =>
        /\ rig_call.exc.type = "ValueError"
        /\ ~rig_call.called_update
        /\ ~rig_call.update_ran

C5_Witness ==
    /\ rig_call.done
    /\ ui_visible
    /\ source_group = PyNone
    /\ source_text = ""
    /\ is_valid_group(scene, target_group)

\* C6: Flex.update_rig called with source_group and target_group both set and
\* equal raises ValueError("The given source and target objects are the
\* same. Nothing to update!") and does not call update.update_rig.
C6_SameGroupRaises ==
    (/\ rig_call.done
     /\ Truthy(source_group)
     /\ Truthy(target_group)
     /\ source_group = target_group) =>
        /\ rig_call.exc =
             Raise("ValueError",
                   "The given source and target objects are the same. Nothing to update!")
        /\ ~rig_call.called_update
        /\ ~rig_call.update_ran

C6_Witness ==
    /\ rig_call.done
    /\ source_group = target_group
    /\ is_valid_group(scene, source_group)

\* C7: Flex.update_rig called with a source_group or target_group that names
\* no existing transform node raises ValueError and does not call
\* update.update_rig.
C7_InvalidGroupRaises ==
    (/\ rig_call.done
     /\ Truthy(source_group)
     /\ Truthy(target_group)
     /\ (~is_valid_group(scene, source_group)
         \/ ~is_valid_group(scene, target_group))) =>
        /\ rig_call.exc.type = "ValueError"
        /\ ~rig_call.called_update

\* C8: with source_group and target_group two different existing transform
\* groups that hold shapes, Flex.update_rig() with its default arguments runs
\* the update to the end, raises nothing and returns None.
C8_DefaultUpdateReturns ==
    (/\ rig_call.done
     /\ rig_call.analytic
     /\ rig_call.run_options = NoOptions
     /\ is_valid_group(scene, source_group)
     /\ is_valid_group(scene, target_group)
     /\ source_group # target_group
     /\ HoldsShapes(source_group)
     /\ HoldsShapes(target_group)) =>
        /\ rig_call.exc = NoExc
        /\ rig_call.update_ran

----------------------------------------------------------------------------
(* Properties of update_attribute and update_user_attributes *)

LogOps(op) == {k \in DOMAIN ua.log : ua.log[k].op = op}

\* C14: update_user_attributes calls add_attribute for every user defined
\* attribute of the source before it calls update_attribute for any, so no
\* value is set on the target before all missing attributes are added; with
\* no user defined attribute on the source the target is left as it was.
C14_AddBeforeUpdate ==
    /\ \A j \in LogOps("add_attribute"), k \in LogOps("update_attribute") : j < k
    /\ LogOps("update_attribute") # {} =>
         \A name \in DOMAIN src_attrs :
            \E j \in LogOps("add_attribute") : ua.log[j].name = name
    /\ LogOps("update_attribute") = {} =>
         \A name \in DOMAIN ua.pre : tgt_attrs[name] = ua.pre[name]
    /\ (ua.pc = "done" /\ DOMAIN src_attrs = {}) =>
         ua.log = <<>> /\ tgt_attrs = ua.pre

C14_Witness ==
    /\ ua.pc = "done"
    /\ Len(ua.attrs) = 2
    /\ \E name \in DOMAIN src_attrs :
         /\ name \notin DOMAIN ua.pre
         /\ src_attrs[name].value # AddedAttr.value
         /\ tgt_attrs[name].value = src_attrs[name].value

CalledAttr == attr_call.name

\* C17: update_attribute leaves the target as it was and raises nothing when
\* the attribute is not on the target or cannot be unlocked, and a failure
\* while getting or setting the value is returned as a value and not raised.
C17_AttributeFailuresContained ==
    attr_call.done =>
        /\ (\/ CalledAttr \notin DOMAIN attr_call.pre
            \/ ~attr_call.pre[CalledAttr].unlockable) =>
              /\ tgt_attrs = attr_call.pre
              /\ attr_call.exc = NoExc
              /\ attr_call.ret = NoExc
        /\ (/\ CalledAttr \in DOMAIN attr_call.pre
            /\ attr_call.pre[CalledAttr].unlockable
            /\ (\/ CalledAttr \notin DOMAIN src_attrs
                \/ ~attr_call.pre[CalledAttr].settable)) =>
              /\ attr_call.exc = NoExc
              /\ attr_call.ret # NoExc
              /\ tgt_attrs[CalledAttr].value = attr_call.pre[CalledAttr].value

C17_Witness ==
    /\ attr_call.done
    /\ CalledAttr \in DOMAIN attr_call.pre
    /\ CalledAttr \in DOMAIN src_attrs
    /\ ~attr_call.pre[CalledAttr].unlockable
    /\ attr_call.pre[CalledAttr].settable
    /\ src_attrs[CalledAttr].value # attr_call.pre[CalledAttr].value

----------------------------------------------------------------------------
(* Properties of the shape updates *)

Called(name) == graph_call.done /\ graph_call.name = name

\* C13: clean_uvs_sets(shape) on a mesh leaves no uvSet index but 0: every
\* index that is not 0 is removed and index 0 is left as it was; on a
\* shape that is not a mesh it changes nothing; no other node and no
\* connection is touched.
C13_OnlyUvZeroLeft ==
    Called("clean_uvs_sets") =>
        LET shape == graph_call.target
            before == pre_dg.nodes[shape]
            after == dg.nodes[shape]
        IN  /\ before.type = "mesh" =>
                /\ DOMAIN after.uv = DOMAIN before.uv \cap {0}
                /\ \A i \in DOMAIN after.uv : after.uv[i] = before.uv[i]
                /\ [after EXCEPT !.uv = before.uv] = before
            /\ before.type # "mesh" => after = before
            /\ \A n \in DOMAIN pre_dg.nodes \ {shape} :
                   dg.nodes[n] = pre_dg.nodes[n]
            /\ DOMAIN dg.nodes = DOMAIN pre_dg.nodes
            /\ dg.conns = pre_dg.conns

\* a mesh with a locked index that is not 0 and with index 0 has been cleaned
C13_Witness ==
    /\ Called("clean_uvs_sets")
    /\ graph_call.exc = NoExc
    /\ pre_dg.nodes[graph_call.target].type = "mesh"
    /\ \E i \in DOMAIN pre_dg.nodes[graph_call.target].uv :
           i # 0 /\ pre_dg.nodes[graph_call.target].uv[i]
    /\ DOMAIN dg.nodes[graph_call.target].uv = {0}

\* C12: after update_shape(source, target) returns, the connections are the
\* ones there were before the call: the connection it made is removed
\* again and what fed the input of the target is still connected.
C12_ConnectionsAsBefore ==
    (Called("update_shape") /\ graph_call.exc = NoExc) =>
        dg.conns = pre_dg.conns

IsTransform(graph, n) == graph.nodes[n].type = "transform"

UpdateShapeEntry(source, target) ==
    [op |-> "update_shape", source |-> source, target |-> target]

TransformedCall(hold_transform) ==
    /\ Called("update_transformed_shape")
    /\ graph_call.flag = hold_transform
    /\ get_shape_orig(Start(pre_dg), graph_call.target) = <<>>

\* update_transformed_shape with hold_transform true on a target without
\* orig shape runs update_shape alone and leaves every transform node, the
\* parent of the target among them, as it was
C15_HoldKeepsTransform ==
    TransformedCall(TRUE) =>
        /\ graph_call.log =
               <<UpdateShapeEntry(graph_call.source, graph_call.target)>>
        /\ DOMAIN dg.nodes = DOMAIN pre_dg.nodes
        /\ \A n \in DOMAIN pre_dg.nodes :
               IsTransform(pre_dg, n) => dg.nodes[n] = pre_dg.nodes[n]
        /\ dg.nodes[graph_call.target].parents =
               pre_dg.nodes[graph_call.target].parents

\* the transform node over the target was replaced by a duplicate of the
\* transform of the source, under the same name and the same parent
ParentReplaced ==
    LET old == pre_dg.nodes[graph_call.target].parents[1]
        from == pre_dg.nodes[graph_call.source].parents[1]
    IN  /\ old \in DOMAIN dg.nodes
        /\ dg.nodes[old].uid # pre_dg.nodes[old].uid
        /\ dg.nodes[old].xform = pre_dg.nodes[from].xform
        /\ dg.nodes[old].parents = pre_dg.nodes[old].parents
        /\ dg.nodes[graph_call.target].parents = <<old>>

\* C15: update_transformed_shape(source, target, hold_transform) on a target
\* without orig shape: with hold_transform true only update_shape runs and
\* the parent transform of the target is neither replaced, deleted nor
\* renamed; with hold_transform false the parent transform is replaced
\* through update_transform.
C15_TransformedShape ==
    /\ C15_HoldKeepsTransform
    /\ TransformedCall(FALSE) =>
           /\ graph_call.log # <<>>
           /\ graph_call.log[1].op = "update_transform"
           /\ ParentReplaced

DeformedCall == Called("update_deformed_shape")

\* the orig shapes of the target before the call
PreOrigs == get_shape_orig(Start(pre_dg), graph_call.target)

InputPlug(graph, n) == <<n, InputOf(graph.nodes[n].type)>>

\* C11: update_deformed_shape writes the source geometry only onto the orig
\* shape of the target, never onto the input of the deformed target: of the
\* plugs there were before the call only the input of the orig shape is
\* connected to, and every connection that did not feed the orig shape, the
\* deformers between orig shape and target among them, is still there
\* after the call, however it ends.
C11_OnlyOrigWritten ==
    DeformedCall =>
        /\ InputPlug(pre_dg, graph_call.target) \notin graph_call.written
        /\ \A plug \in graph_call.written :
               plug[1] \in DOMAIN pre_dg.nodes =>
                   /\ PreOrigs # <<>>
                   /\ plug = InputPlug(pre_dg, PreOrigs[1])
        /\ \A c \in pre_dg.conns :
               (PreOrigs = <<>> \/ c.dst[1] # PreOrigs[1]) => c \in dg.conns

\* a deformed target was updated: its orig shape took the geometry of the
\* source, which was another one, and the target is still fed by a deformer
C11_Witness ==
    /\ DeformedCall
    /\ PreOrigs # <<>>
    /\ InputPlug(pre_dg, PreOrigs[1]) \in graph_call.written
    /\ dg.nodes[PreOrigs[1]].geom = pre_dg.nodes[graph_call.source].geom
    /\ dg.nodes[PreOrigs[1]].geom # pre_dg.nodes[PreOrigs[1]].geom
    /\ \E c \in dg.conns :
           /\ c.dst = InputPlug(pre_dg, graph_call.target)
           /\ dg.nodes[c.src[1]].type \in DeformerTypes

\* C16: in update_deformed_shape, geometry of a source whose vertex count
\* differs from the target's is written onto the orig shape only inside
\* update_deformed_mismatching_shape, never by update_shape called on the
\* orig shape directly.
C16_MismatchOnlyThroughBackup ==
    (/\ DeformedCall
     /\ PreOrigs # <<>>
     /\ ~is_matching_count(Start(pre_dg), graph_call.source,
                           graph_call.target)) =>
        \A k \in DOMAIN graph_call.log :
            graph_call.log[k] =
                UpdateShapeEntry(graph_call.source, PreOrigs[1]) =>
                    \E j \in 1 .. (k - 1) :
                        graph_call.log[j].op =
                            "update_deformed_mismatching_shape"

====
